---------------------------- MODULE Spec2Model ----------------------------
(***************************************************************************)
(* A model of pyontools.py (PYON: Python Object Notation).                 *)
(*                                                                         *)
(* Every public function of the module is a pure function; the state       *)
(* machine below is a caller that invokes them one at a time and records   *)
(* the call (op, arg), its outcome (ret) and, when the argument was the    *)
(* text returned by the preceding call, that preceding call (prev).        *)
(*                                                                         *)
(* Texts are sequences of one-character strings.  Python values are        *)
(* records [kind, n, s, items]:                                            *)
(*   int   n                    bool  n \in {0,1}        none              *)
(*   str   s = its characters   list / tuple  items = the elements         *)
(*   set   items = the members in table (iteration) order                  *)
(*   dict  items = "pair" records in insertion order                       *)
(* The library calls the source makes (repr, ast.literal_eval, sorted,     *)
(* re.sub, json.dumps, str) are modelled by what CPython 3.11 does.        *)
(*                                                                         *)
(* Outside the model: floats, complex numbers, bytes, string prefixes and  *)
(* the Ellipsis; the pprint branch of pyon_encode (indent # 0); the        *)
(* function and type branch of pyon_to_json.convert; simple_pyon_to_json.  *)
(***************************************************************************)
EXTENDS Integers, Sequences, FiniteSets, TLC

VARIABLES op, arg, ret, prev

vars == <<op, arg, ret, prev>>

(***************************************************************************)
(* Bounds of the model.                                                    *)
(***************************************************************************)
MaxItems == 2      \* most items of a generated list, tuple, set or dict of scalars
MaxNest  == 1      \* most items of a generated container of containers
MaxRow   == 2      \* most cells of a generated row

(***************************************************************************)
(* Python values.                                                          *)
(***************************************************************************)
V(k, n, s, items) == [kind |-> k, n |-> n, s |-> s, items |-> items]

IntV(n)      == V("int", n, <<>>, <<>>)
BoolV(b)     == V("bool", IF b THEN 1 ELSE 0, <<>>, <<>>)
NoneV        == V("none", 0, <<>>, <<>>)
StrV(s)      == V("str", 0, s, <<>>)
ListV(xs)    == V("list", 0, <<>>, xs)
TupleV(xs)   == V("tuple", 0, <<>>, xs)
SetV(xs)     == V("set", 0, <<>>, xs)
DictV(ps)    == V("dict", 0, <<>>, ps)
PairV(k, v)  == V("pair", 0, <<>>, <<k, v>>)

\* The outcome of a call: the exception it raised ("none" when it returned),
\* the value it returned, whether that value is the argument object itself,
\* and the contents of the argument object when the call ended.
Ok(v, same, a)  == [exc |-> "none", val |-> v, same |-> same, arg |-> a]
Raise(e, a)     == [exc |-> e, val |-> NoneV, same |-> FALSE, arg |-> a]

\* Results of the helpers that have no argument object of their own.
Ret(v)   == [exc |-> "none", val |-> v]
Err(e)   == [exc |-> e, val |-> NoneV]

Range(f) == {f[i] : i \in DOMAIN f}

Min(S) == CHOOSE x \in S : \A y \in S : x <= y
Max(S) == CHOOSE x \in S : \A y \in S : y <= x

\* the concatenation of the sequences ss[lo..hi], halving the range
RECURSIVE ConcatRange(_, _, _)
ConcatRange(ss, lo, hi) ==
    IF lo > hi THEN <<>>
    ELSE IF lo = hi THEN ss[lo]
    ELSE ConcatRange(ss, lo, (lo + hi) \div 2) \o ConcatRange(ss, ((lo + hi) \div 2) + 1, hi)

Concat(ss) == ConcatRange(ss, 1, Len(ss))

Join(ss, sep) ==
    IF Len(ss) = 0 THEN <<>>
    ELSE Concat([i \in 1..(2 * Len(ss) - 1) |->
                   IF i % 2 = 1 THEN ss[(i + 1) \div 2] ELSE sep])

(***************************************************************************)
(* Equality, hashing and the built-in containers of CPython.               *)
(***************************************************************************)
IsNumber(v) == v.kind \in {"int", "bool"}

\* a == b for the hashable values (True == 1 and False == 0)
RECURSIVE PyEq(_, _)
PyEq(a, b) ==
    IF IsNumber(a) /\ IsNumber(b) THEN a.n = b.n
    ELSE IF a.kind # b.kind THEN FALSE
    ELSE IF a.kind = "tuple"
      THEN /\ Len(a.items) = Len(b.items)
           /\ \A i \in 1..Len(a.items) : PyEq(a.items[i], b.items[i])
    ELSE a = b

\* hash(v) succeeds
RECURSIVE IsHashable(_)
IsHashable(v) ==
    IF v.kind \in {"list", "dict", "set"} THEN FALSE
    ELSE IF v.kind = "tuple" THEN \A i \in 1..Len(v.items) : IsHashable(v.items[i])
    ELSE TRUE

\* hash(v) of the numbers (hash(-1) is -2); the members of the sets with two
\* or more members that the model builds are numbers
PyHash(v) == IF IsNumber(v) THEN (IF v.n = -1 THEN -2 ELSE v.n) ELSE 0

SetTableSize == 8       \* PySet_MINSIZE: the table of a set of up to 4 members
PerturbShift == 5       \* PERTURB_SHIFT
PerturbRounds == 12     \* shifts after which a 64-bit perturb is below 2^5

EmptySlot == V("empty", 0, <<>>, <<>>)
EmptyTable == [i \in 0..(SetTableSize - 1) |-> EmptySlot]

RECURSIVE ShiftRight(_, _)
ShiftRight(h, j) == IF j = 0 THEN h ELSE ShiftRight(h \div (2 ^ PerturbShift), j - 1)

\* the low bits of perturb after j shifts of the hash taken as an unsigned
\* 64-bit word
Perturb(h, j) == IF j <= PerturbRounds THEN ShiftRight(h, j) % SetTableSize ELSE 0

\* set_add_entry: probe from slot i; a table of 8 slots has no linear probes
RECURSIVE set_add_entry(_, _, _, _)
set_add_entry(table, key, i, j) ==
    IF table[i] = EmptySlot THEN [table EXCEPT ![i] = key]
    ELSE IF PyHash(table[i]) = PyHash(key) /\ PyEq(table[i], key) THEN table
    ELSE set_add_entry(table, key,
                       (i * 5 + 1 + Perturb(PyHash(key), j + 1)) % SetTableSize,
                       j + 1)

set_add(table, key) == set_add_entry(table, key, PyHash(key) % SetTableSize, 0)

RECURSIVE TableItems(_, _)
TableItems(table, i) ==
    IF i = SetTableSize THEN <<>>
    ELSE (IF table[i] = EmptySlot THEN <<>> ELSE <<table[i]>>) \o TableItems(table, i + 1)

\* the set object holding a table: its members in iteration order
SetOfTable(table) == SetV(TableItems(table, 0))

\* d[k] = v on a dict's items: an equal key keeps its place and its key object
RECURSIVE dict_setitem(_, _, _)
dict_setitem(ps, k, v) ==
    IF ps = <<>> THEN <<PairV(k, v)>>
    ELSE IF PyEq(Head(ps).items[1], k)
      THEN <<PairV(Head(ps).items[1], v)>> \o Tail(ps)
    ELSE <<Head(ps)>> \o dict_setitem(Tail(ps), k, v)


(***************************************************************************)
(* repr(obj), the encoder of pyon_encode.                                  *)
(***************************************************************************)
Quote  == "'"
DQuote == "\""
Bslash == "\\"
Space  == " "
Tab    == "\t"
Newline == "\n"

Digits == <<"0", "1", "2", "3", "4", "5", "6", "7", "8", "9">>

RECURSIVE NatChars(_)
NatChars(n) ==
    IF n < 10 THEN <<Digits[n + 1]>>
    ELSE NatChars(n \div 10) \o <<Digits[(n % 10) + 1]>>

int_repr(n) == IF n < 0 THEN <<"-">> \o NatChars(-n) ELSE NatChars(n)

\* unicode_repr: double quotes only for a text with a ' and no "
StrQuote(s) ==
    IF Quote \in Range(s) /\ DQuote \notin Range(s) THEN DQuote ELSE Quote

EscapeChar(c, q) ==
    IF c = q \/ c = Bslash THEN <<Bslash, c>>
    ELSE IF c = Tab THEN <<Bslash, "t">>
    ELSE IF c = Newline THEN <<Bslash, "n">>
    ELSE <<c>>

EscapeChars(s, q) == Concat([i \in 1..Len(s) |-> EscapeChar(s[i], q)])

str_repr(s) == <<StrQuote(s)>> \o EscapeChars(s, StrQuote(s)) \o <<StrQuote(s)>>

CommaSpace == <<",", Space>>
ColonSpace == <<":", Space>>

\* a tuple display without the comma that marks a one-element tuple
tuple_repr_plain(parts) == <<"(">> \o Join(parts, CommaSpace) \o <<")">>

\* tuplerepr: a tuple of one element ends in a comma
tuple_repr(parts) ==
    IF Len(parts) = 1 THEN <<"(">> \o parts[1] \o <<",", ")">>
    ELSE <<"(">> \o Join(parts, CommaSpace) \o <<")">>

\* set_repr: the empty set is set(), as {} is the empty dict
set_repr(parts) ==
    IF parts = <<>> THEN <<"s", "e", "t", "(", ")">>
    ELSE <<"{">> \o Join(parts, CommaSpace) \o <<"}">>

RECURSIVE py_repr(_)
py_repr(v) ==
    CASE v.kind = "int"   -> int_repr(v.n)
      [] v.kind = "bool"  -> IF v.n = 1 THEN <<"T", "r", "u", "e">>
                                        ELSE <<"F", "a", "l", "s", "e">>
      [] v.kind = "none"  -> <<"N", "o", "n", "e">>
      [] v.kind = "str"   -> str_repr(v.s)
      [] v.kind = "list"  ->
           <<"[">> \o Join([i \in DOMAIN v.items |-> py_repr(v.items[i])], CommaSpace)
                   \o <<"]">>
      [] v.kind = "tuple" -> tuple_repr([i \in DOMAIN v.items |-> py_repr(v.items[i])])
      [] v.kind = "set"   -> set_repr([i \in DOMAIN v.items |-> py_repr(v.items[i])])
      [] v.kind = "dict"  ->
           <<"{">> \o Join([i \in DOMAIN v.items |-> py_repr(v.items[i])], CommaSpace)
                   \o <<"}">>
      [] v.kind = "pair"  ->
           py_repr(v.items[1]) \o ColonSpace \o py_repr(v.items[2])

\* pyon_encode(obj) with the default indent=0: the pprint branch is not taken
pyon_encode(obj) == Ok(StrV(py_repr(obj)), FALSE, obj)


(***************************************************************************)
(* ast.literal_eval, the decoder of pyon_decode: the tokenizer.            *)
(***************************************************************************)
NameStart == {"T", "r", "u", "e", "F", "a", "l", "s", "N", "o", "n", "t",
              "x", "c", "f"}
OpChars   == {"(", ")", "[", "]", "{", "}", ",", ":", "+", "-"}
Openers   == {"(", "[", "{"}
Closers   == {")", "]", "}"}

IsDigit(c)    == c \in Range(Digits)
IsNameChar(c) == c \in NameStart \/ IsDigit(c)

Token(tt, n, s) == [tt |-> tt, n |-> n, s |-> s]
EndTok == Token("END", 0, <<>>)

DigitValue(c) == CHOOSE d \in 0..9 : Digits[d + 1] = c

RECURSIVE NatOfChars(_)
NatOfChars(cs) ==
    IF cs = <<>> THEN 0
    ELSE NatOfChars(SubSeq(cs, 1, Len(cs) - 1)) * 10 + DigitValue(cs[Len(cs)])

IsBlank(c) == c \in {Space, Tab}

\* the first index from i on that holds no blank (Len(t) + 1 when none does)
FirstNonBlank(t, i) == Min({j \in i..Len(t) : ~IsBlank(t[j])} \cup {Len(t) + 1})

\* within a string body that starts at lo, the character at j follows an odd
\* number of backslashes: it is escaped
IsEscaped(t, j, lo) ==
    (j - 1 - Max({k \in (lo - 1)..(j - 1) : k = lo - 1 \/ t[k] # Bslash})) % 2 = 1

\* the character(s) an escape sequence \c stands for: the escapes repr writes,
\* a continued line, and the unrecognised escapes, which keep their backslash
Unescape(c) ==
    IF c \in {Bslash, Quote, DQuote} THEN <<c>>
    ELSE IF c = "n" THEN <<Newline>>
    ELSE IF c = "t" THEN <<Tab>>
    ELSE IF c = Newline THEN <<>>
    ELSE <<Bslash, c>>

IsTripleAt(t, i, q) ==
    i + 2 <= Len(t) /\ t[i] = q /\ t[i + 1] = q /\ t[i + 2] = q

\* the string literal whose opening quote is at o: where its body starts,
\* where its closing quote(s) start, and the index after it
StringAt(t, o) ==
    LET q == t[o]
        triple == IsTripleAt(t, o, q)
        lo == IF triple THEN o + 3 ELSE o + 1
        closes == {j \in lo..Len(t) :
                     /\ ~IsEscaped(t, j, lo)
                     /\ IF triple THEN IsTripleAt(t, j, q) ELSE t[j] \in {q, Newline}}
    IN  IF closes = {} \/ t[Min(closes)] # q
          THEN [ok |-> FALSE, o |-> o, lo |-> lo, close |-> lo, next |-> Len(t) + 1]
          ELSE [ok |-> TRUE, o |-> o, lo |-> lo, close |-> Min(closes),
                next |-> Min(closes) + (IF triple THEN 3 ELSE 1)]

\* the string literals of t from index i on, in order; the last one has
\* ok = FALSE when it is not terminated
RECURSIVE StringSpans(_, _)
StringSpans(t, i) ==
    LET quotes == {j \in i..Len(t) : t[j] \in {Quote, DQuote}}
        From(sp) == IF sp.ok THEN <<sp>> \o StringSpans(t, sp.next) ELSE <<sp>>
    IN  IF quotes = {} THEN <<>> ELSE From(StringAt(t, Min(quotes)))

\* the text a string literal denotes
StringValue(t, sp) ==
    Concat([k \in 1..(sp.close - sp.lo) |->
              LET j == sp.lo + k - 1
              IN  IF IsEscaped(t, j, sp.lo) THEN Unescape(t[j])
                  ELSE IF t[j] = Bslash THEN <<>>
                  ELSE <<t[j]>>])

TokFail == [ok |-> FALSE, toks |-> <<>>]

\* the tokens of t: a NAME or NUM for each run of letters and digits, an OP
\* for each bracket, comma, colon and sign, a STR for each string literal and
\* an NL for each line end that is in no bracket
Tokenize(t) ==
    LET Tokens(spans, Out, Alnum, Ops) ==
            LET RunStarts == {i \in Alnum : (i - 1) \notin Alnum}
                RunEnd(i) == Min({j \in i..(Len(t) + 1) : j \notin Alnum})
                Depth(i) == Cardinality({j \in Ops : j < i /\ t[j] \in Openers})
                              - Cardinality({j \in Ops : j < i /\ t[j] \in Closers})
                Lines == {i \in Out : t[i] = Newline /\ Depth(i) <= 0}
                BadNumber(i) ==
                    /\ IsDigit(t[i])
                    /\ \/ \E k \in i..(RunEnd(i) - 1) : ~IsDigit(t[k])
                       \/ /\ RunEnd(i) - i > 1
                          /\ t[i] = "0"
                          /\ \E k \in i..(RunEnd(i) - 1) : t[k] # "0"
                IndentError(i) ==
                    LET j == FirstNonBlank(t, i + 1)
                    IN  j > i + 1 /\ j <= Len(t) /\ t[j] # Newline
                Bad ==
                    \/ \E k \in 1..Len(spans) : ~spans[k].ok
                    \/ \E i \in Out : /\ i \notin Alnum \cup Ops
                                      /\ t[i] \notin {Space, Tab, Newline}
                    \/ \E i \in RunStarts : BadNumber(i)
                    \/ \E i \in Ops : t[i] \in Closers /\ Depth(i) <= 0
                    \/ Depth(Len(t) + 1) # 0
                    \/ \E i \in Lines : IndentError(i)
                Starts == RunStarts \cup Ops \cup Lines
                            \cup {spans[k].o : k \in 1..Len(spans)}
                Nth(k) == CHOOSE i \in Starts : Cardinality({j \in Starts : j < i}) = k - 1
                TokenAt(i) ==
                    IF i \in Ops THEN Token("OP", 0, <<t[i]>>)
                    ELSE IF i \in Lines THEN Token("NL", 0, <<>>)
                    ELSE IF i \in RunStarts
                      THEN IF IsDigit(t[i])
                             THEN Token("NUM", NatOfChars(SubSeq(t, i, RunEnd(i) - 1)), <<>>)
                             ELSE Token("NAME", 0, SubSeq(t, i, RunEnd(i) - 1))
                    ELSE Token("STR", 0,
                               StringValue(t, CHOOSE sp \in Range(spans) : sp.o = i))
            IN  IF Bad THEN TokFail
                ELSE [ok |-> TRUE,
                      toks |-> [k \in 1..Cardinality(Starts) |-> TokenAt(Nth(k))]]
        \* the runs of letters and digits and the operators, outside the strings
        Runs(spans, Out) ==
            Tokens(spans, Out, {i \in Out : IsNameChar(t[i])},
                   {i \in Out : t[i] \in OpChars})
        Strings(spans) ==
            Runs(spans, {i \in 1..Len(t) :
                           ~\E k \in 1..Len(spans) :
                               spans[k].o <= i /\ i < spans[k].next})
    IN  Strings(StringSpans(t, 1))

(***************************************************************************)
(* ast.parse(text, mode='eval') on the tokens: the expression grammar over *)
(* names, numbers, strings, displays, unary and binary + and -, calls and  *)
(* subscripts.  A node is [nt, val, name, kids].                           *)
(***************************************************************************)
Node(nt, val, name, kids) == [nt |-> nt, val |-> val, name |-> name, kids |-> kids]
NoNode == Node("none", NoneV, <<>>, <<>>)

Constant(v) == Node("Constant", v, <<>>, <<>>)

PFail         == [ok |-> FALSE, pos |-> 0, node |-> NoNode]
POk(pos, nd)  == [ok |-> TRUE, pos |-> pos, node |-> nd]

Tok(ts, p)   == IF p <= Len(ts) THEN ts[p] ELSE EndTok
IsOp(tok, c) == tok.tt = "OP" /\ tok.s = <<c>>

NameNode(s) ==
    IF s = <<"T", "r", "u", "e">> THEN Constant(BoolV(TRUE))
    ELSE IF s = <<"F", "a", "l", "s", "e">> THEN Constant(BoolV(FALSE))
    ELSE IF s = <<"N", "o", "n", "e">> THEN Constant(NoneV)
    ELSE Node("Name", NoneV, s, <<>>)

\* adjacent string literals are one constant
RECURSIVE StringsEnd(_, _)
StringsEnd(ts, p) == IF Tok(ts, p).tt = "STR" THEN StringsEnd(ts, p + 1) ELSE p

RECURSIVE ParseExpr(_, _), ParseSumRest(_, _), ParseFactor(_, _), ParseTrailers(_, _),
          ParseAtom(_, _), ParseElts(_, _, _, _, _), ParsePairs(_, _, _), ParseBrace(_, _)

\* sum: factor (('+' | '-') factor)*
ParseExpr(ts, p) == ParseSumRest(ts, ParseFactor(ts, p))

ParseSumRest(ts, l) ==
    LET tok == Tok(ts, l.pos)
        BinOp(r) ==
            IF r.ok
              THEN ParseSumRest(ts, POk(r.pos,
                       Node("BinOp", NoneV, tok.s, <<l.node, r.node>>)))
              ELSE PFail
    IN  IF ~l.ok THEN PFail
        ELSE IF IsOp(tok, "+") \/ IsOp(tok, "-") THEN BinOp(ParseFactor(ts, l.pos + 1))
        ELSE l

\* factor: ('+' | '-') factor | primary
ParseFactor(ts, p) ==
    LET tok == Tok(ts, p)
        UnaryOp(r) ==
            IF r.ok THEN POk(r.pos, Node("UnaryOp", NoneV, tok.s, <<r.node>>)) ELSE PFail
    IN  IF IsOp(tok, "+") \/ IsOp(tok, "-") THEN UnaryOp(ParseFactor(ts, p + 1))
        ELSE ParseTrailers(ts, ParseAtom(ts, p))

\* primary: atom ( '(' [args] ')' | '[' subscripts ']' )*
ParseTrailers(ts, a) ==
    LET tok == Tok(ts, a.pos)
        AfterArgs(r) ==
            IF r.ok
              THEN ParseTrailers(ts, POk(r.pos,
                       Node("Call", NoneV, <<>>, <<a.node>> \o r.node.kids)))
              ELSE PFail
        AfterSubscripts(r) ==
            IF r.ok /\ r.node.kids # <<>>
              THEN ParseTrailers(ts, POk(r.pos,
                       Node("Subscript", NoneV, <<>>, <<a.node>> \o r.node.kids)))
              ELSE PFail
    IN  IF ~a.ok THEN PFail
        ELSE IF IsOp(tok, "(") THEN AfterArgs(ParseElts(ts, a.pos + 1, ")", <<>>, FALSE))
        ELSE IF IsOp(tok, "[")
          THEN AfterSubscripts(ParseElts(ts, a.pos + 1, "]", <<>>, FALSE))
        ELSE a

\* expression (',' expression)* [','] closer; name is <<",">> when a comma was seen
ParseElts(ts, p, closer, acc, comma) ==
    LET Elts(kids) == Node("elts", NoneV, IF comma THEN <<",">> ELSE <<>>, kids)
        AfterExpr(e) ==
            IF ~e.ok THEN PFail
            ELSE IF IsOp(Tok(ts, e.pos), ",")
              THEN ParseElts(ts, e.pos + 1, closer, Append(acc, e.node), TRUE)
            ELSE IF IsOp(Tok(ts, e.pos), closer)
              THEN POk(e.pos + 1, Elts(Append(acc, e.node)))
            ELSE PFail
    IN  IF IsOp(Tok(ts, p), closer) THEN POk(p + 1, Elts(acc))
        ELSE AfterExpr(ParseExpr(ts, p))

\* key ':' value (',' key ':' value)* [','] '}'
ParsePairs(ts, p, acc) ==
    LET WithPair(k, v) == Append(acc, Node("pair", NoneV, <<>>, <<k.node, v.node>>))
        AfterValue(k, v) ==
            IF ~v.ok THEN PFail
            ELSE IF IsOp(Tok(ts, v.pos), ",") THEN ParsePairs(ts, v.pos + 1, WithPair(k, v))
            ELSE IF IsOp(Tok(ts, v.pos), "}")
              THEN POk(v.pos + 1, Node("Dict", NoneV, <<>>, WithPair(k, v)))
            ELSE PFail
        AfterKey(k) ==
            IF ~k.ok \/ ~IsOp(Tok(ts, k.pos), ":") THEN PFail
            ELSE AfterValue(k, ParseExpr(ts, k.pos + 1))
    IN  IF IsOp(Tok(ts, p), "}") THEN POk(p + 1, Node("Dict", NoneV, <<>>, acc))
        ELSE AfterKey(ParseExpr(ts, p))

\* after '{': {} is the empty dict; a ':' after the first expression makes a dict
ParseBrace(ts, p) ==
    LET SetDisplay(r) ==
            IF r.ok THEN POk(r.pos, Node("Set", NoneV, <<>>, r.node.kids)) ELSE PFail
        AfterFirst(e) ==
            IF ~e.ok THEN PFail
            ELSE IF IsOp(Tok(ts, e.pos), ":") THEN ParsePairs(ts, p, <<>>)
            ELSE SetDisplay(ParseElts(ts, p, "}", <<>>, FALSE))
    IN  IF IsOp(Tok(ts, p), "}") THEN POk(p + 1, Node("Dict", NoneV, <<>>, <<>>))
        ELSE AfterFirst(ParseExpr(ts, p))

ParseAtom(ts, p) ==
    LET tok == Tok(ts, p)
        Strings(q) ==
            POk(q, Constant(StrV(Concat([i \in 1..(q - p) |-> ts[p + i - 1].s]))))
        Parenthesized(r) ==
            IF ~r.ok THEN PFail
            ELSE IF Len(r.node.kids) = 1 /\ r.node.name = <<>>
              THEN POk(r.pos, r.node.kids[1])
            ELSE POk(r.pos, Node("Tuple", NoneV, <<>>, r.node.kids))
        ListDisplay(r) ==
            IF r.ok THEN POk(r.pos, Node("List", NoneV, <<>>, r.node.kids)) ELSE PFail
    IN  CASE tok.tt = "NUM"  -> POk(p + 1, Constant(IntV(tok.n)))
          [] tok.tt = "NAME" -> POk(p + 1, NameNode(tok.s))
          [] tok.tt = "STR"  -> Strings(StringsEnd(ts, p))
          [] IsOp(tok, "(")  -> Parenthesized(ParseElts(ts, p + 1, ")", <<>>, FALSE))
          [] IsOp(tok, "[")  -> ListDisplay(ParseElts(ts, p + 1, "]", <<>>, FALSE))
          [] IsOp(tok, "{")  -> ParseBrace(ts, p + 1)
          [] OTHER -> PFail

RECURSIVE SkipNL(_, _)
SkipNL(ts, p) == IF Tok(ts, p).tt = "NL" THEN SkipNL(ts, p + 1) ELSE p

\* eval_input: expressions NEWLINE* ENDMARKER; a top-level comma makes a tuple
RECURSIVE ParseTop(_, _, _, _)
ParseTop(ts, p, acc, comma) ==
    LET AtEnd(q) == Tok(ts, SkipNL(ts, q)).tt = "END"
        AfterExpr(e) ==
            IF ~e.ok THEN PFail
            ELSE IF IsOp(Tok(ts, e.pos), ",")
              THEN IF AtEnd(e.pos + 1)
                     THEN POk(e.pos + 1, Node("Tuple", NoneV, <<>>, Append(acc, e.node)))
                     ELSE ParseTop(ts, e.pos + 1, Append(acc, e.node), TRUE)
            ELSE IF AtEnd(e.pos)
              THEN IF comma THEN POk(e.pos, Node("Tuple", NoneV, <<>>, Append(acc, e.node)))
                   ELSE POk(e.pos, e.node)
            ELSE PFail
    IN  AfterExpr(ParseExpr(ts, p))

ast_parse(t) ==
    LET Parse(tk) ==
            IF tk.ok THEN ParseTop(tk.toks, SkipNL(tk.toks, 1), <<>>, FALSE) ELSE PFail
    IN  Parse(Tokenize(t))


(***************************************************************************)
(* ast.literal_eval: the conversion of the parsed node.                    *)
(***************************************************************************)
\* _convert_num: an int constant (type bool is not int)
convert_num(nd) ==
    IF nd.nt = "Constant" /\ nd.val.kind = "int" THEN Ret(nd.val) ELSE Err("ValueError")

\* _convert_signed_num: + or - applied to a number
convert_signed_num(nd) ==
    IF nd.nt = "UnaryOp"
      THEN LET r == convert_num(nd.kids[1])
           IN  IF r.exc # "none" THEN r
               ELSE IF nd.name = <<"-">> THEN Ret(IntV(-r.val.n)) ELSE r
      ELSE convert_num(nd)

RECURSIVE convert_node(_), convert_elts(_, _), convert_set(_, _), convert_dict(_, _)

\* list(map(_convert, elts)) and tuple(map(_convert, elts))
convert_elts(nds, acc) ==
    IF nds = <<>> THEN Ret(ListV(acc))
    ELSE LET r == convert_node(Head(nds))
         IN  IF r.exc # "none" THEN r ELSE convert_elts(Tail(nds), Append(acc, r.val))

\* set(map(_convert, elts)): each member is added as soon as it is converted
convert_set(nds, table) ==
    IF nds = <<>> THEN Ret(SetOfTable(table))
    ELSE LET r == convert_node(Head(nds))
         IN  IF r.exc # "none" THEN r
             ELSE IF ~IsHashable(r.val) THEN Err("TypeError")
             ELSE convert_set(Tail(nds), set_add(table, r.val))

\* dict(zip(map(_convert, keys), map(_convert, values)))
convert_dict(nds, ps) ==
    IF nds = <<>> THEN Ret(DictV(ps))
    ELSE LET k == convert_node(Head(nds).kids[1])
             v == convert_node(Head(nds).kids[2])
         IN  IF k.exc # "none" THEN k
             ELSE IF v.exc # "none" THEN v
             ELSE IF ~IsHashable(k.val) THEN Err("TypeError")
             ELSE convert_dict(Tail(nds), dict_setitem(ps, k.val, v.val))

\* _convert
convert_node(nd) ==
    CASE nd.nt = "Constant" -> Ret(nd.val)
      [] nd.nt = "Tuple" ->
           LET r == convert_elts(nd.kids, <<>>)
           IN  IF r.exc # "none" THEN r ELSE Ret(TupleV(r.val.items))
      [] nd.nt = "List"  -> convert_elts(nd.kids, <<>>)
      [] nd.nt = "Set"   -> convert_set(nd.kids, EmptyTable)
      [] nd.nt = "Call" /\ nd.kids = <<Node("Name", NoneV, <<"s", "e", "t">>, <<>>)>> ->
           Ret(SetV(<<>>))
      [] nd.nt = "Dict"  -> convert_dict(nd.kids, <<>>)
      [] nd.nt = "BinOp" ->
           \* only number +/- complex is a literal, and there are no complex tokens
           LET l == convert_signed_num(nd.kids[1])
               r == convert_num(nd.kids[2])
           IN  IF l.exc # "none" THEN l ELSE IF r.exc # "none" THEN r
               ELSE Err("ValueError")
      [] OTHER -> convert_signed_num(nd)

LStrip(t) == SubSeq(t, FirstNonBlank(t, 1), Len(t))

\* literal_eval(text): SyntaxError from the parser, ValueError for a node
\* that is no literal, TypeError for an unhashable key or member
literal_eval(t) ==
    LET Convert(r) == IF r.ok THEN convert_node(r.node) ELSE Err("SyntaxError")
    IN  Convert(ast_parse(LStrip(t)))

(***************************************************************************)
(* pyon_decode                                                             *)
(***************************************************************************)
\* the exceptions of literal_eval that the except clause catches and
\* re-raises as ValueError
DecodeCaught == {"SyntaxError", "ValueError"}

pyon_decode(pyon_str) ==
    LET Evaluated(r) ==
            IF r.exc = "none" THEN Ok(r.val, FALSE, pyon_str)
            ELSE IF r.exc \in DecodeCaught THEN Raise("ValueError", pyon_str)
            ELSE Raise(r.exc, pyon_str)
    IN  IF pyon_str.s = <<>> THEN Ok(pyon_str, TRUE, pyon_str)
        ELSE Evaluated(literal_eval(pyon_str.s))


(***************************************************************************)
(* remove_spaces: re.sub(r" (?=(?:[^']*'[^']*')*[^']*$)", "", pyon_str)    *)
(***************************************************************************)
\* the pattern matches at i: a space that an even number of ' follows
SpaceMatches(t, i) ==
    t[i] = Space /\ Cardinality({j \in (i + 1)..Len(t) : t[j] = Quote}) % 2 = 0

\* re.sub(pattern, "", t): the characters of t that no match covers
SubEmpty(t) ==
    LET kept == {i \in 1..Len(t) : ~SpaceMatches(t, i)}
    IN  [k \in 1..Cardinality(kept) |->
           t[CHOOSE i \in kept : Cardinality({j \in kept : j < i}) = k - 1]]

remove_spaces(pyon_str) == Ok(StrV(SubEmpty(pyon_str.s)), FALSE, pyon_str)

(***************************************************************************)
(* pyon_to_json                                                            *)
(***************************************************************************)
\* str(k): a text is itself, any other value is its repr
py_str(k) == IF k.kind = "str" THEN k.s ELSE py_repr(k)

RECURSIVE convert(_), convert_items(_, _), convert_list(_, _)

\* a comprehension in which the first item of a string form keeps its value
convert_items_keep_first(ps, acc) ==
    IF ps = <<>> THEN Ret(DictV(acc))
    ELSE LET r == convert(Head(ps).items[2])
             k == StrV(py_str(Head(ps).items[1]))
         IN  IF r.exc # "none" THEN r
             ELSE IF \E i \in 1..Len(acc) : acc[i].items[1] = k
               THEN convert_items(Tail(ps), acc)
             ELSE convert_items(Tail(ps), dict_setitem(acc, k, r.val))

\* {str(k): convert(v) for k, v in value.items()}
convert_items(ps, acc) ==
    IF ps = <<>> THEN Ret(DictV(acc))
    ELSE LET r == convert(Head(ps).items[2])
         IN  IF r.exc # "none" THEN r
             ELSE convert_items(Tail(ps),
                                dict_setitem(acc, StrV(py_str(Head(ps).items[1])), r.val))

\* [convert(v) for v in value]
convert_list(xs, acc) ==
    IF xs = <<>> THEN Ret(ListV(acc))
    ELSE LET r == convert(Head(xs))
         IN  IF r.exc # "none" THEN r ELSE convert_list(Tail(xs), Append(acc, r.val))

convert(value) ==
    IF value.kind \in {"str", "int", "bool", "none"} THEN Ret(value)
    ELSE IF value.kind = "dict" THEN convert_items(value.items, <<>>)
    ELSE IF value.kind = "list" THEN convert_list(value.items, <<>>)
    ELSE IF value.kind = "tuple" THEN convert_list(value.items, <<>>)
    ELSE Err("TypeError")

\* json.dumps of a text: py_encode_basestring_ascii
JsonEscapeChar(c) ==
    IF c = DQuote \/ c = Bslash THEN <<Bslash, c>>
    ELSE IF c = Tab THEN <<Bslash, "t">>
    ELSE IF c = Newline THEN <<Bslash, "n">>
    ELSE <<c>>

json_str(s) ==
    <<DQuote>> \o Concat([i \in DOMAIN s |-> JsonEscapeChar(s[i])]) \o <<DQuote>>

\* json.dumps(obj, separators=(",", ":")) of a converted value
RECURSIVE json_dumps(_)
json_dumps(v) ==
    CASE v.kind = "int"  -> int_repr(v.n)
      [] v.kind = "bool" -> IF v.n = 1 THEN <<"t", "r", "u", "e">>
                                       ELSE <<"f", "a", "l", "s", "e">>
      [] v.kind = "none" -> <<"n", "u", "l", "l">>
      [] v.kind = "str"  -> json_str(v.s)
      [] v.kind = "list" ->
           <<"[">> \o Join([i \in DOMAIN v.items |-> json_dumps(v.items[i])], <<",">>)
                   \o <<"]">>
      [] v.kind = "dict" ->
           <<"{">> \o Join([i \in DOMAIN v.items |-> json_dumps(v.items[i])], <<",">>)
                   \o <<"}">>
      [] v.kind = "pair" ->
           json_str(v.items[1].s) \o <<":">> \o json_dumps(v.items[2])

pyon_to_json(obj) ==
    LET Dumped(r) ==
            IF r.exc # "none" THEN Raise(r.exc, obj)
            ELSE Ok(StrV(json_dumps(r.val)), FALSE, obj)
    IN  Dumped(convert(obj))

(***************************************************************************)
(* pyon_decode_row                                                         *)
(***************************************************************************)
startswith(cell, c) == Len(cell.s) >= 1 /\ cell.s[1] = c
endswith(cell, c)   == Len(cell.s) >= 1 /\ cell.s[Len(cell.s)] = c

\* a test on the text of the cell without the white space around it
LooksLikePyon_stripped(cell) ==
    /\ cell.kind = "str"
    /\ LET black == {i \in 1..Len(cell.s) : cell.s[i] \notin {Space, Tab, Newline}}
       IN  /\ black # {}
           /\ <<cell.s[Min(black)], cell.s[Max(black)]>>
                 \in {<<"{", "}">>, <<"[", "]">>, <<"(", ")">>}

LooksLikePyon(cell) ==
    /\ cell.kind = "str"
    /\ \/ startswith(cell, "{") /\ endswith(cell, "}")
       \/ startswith(cell, "[") /\ endswith(cell, "]")
       \/ startswith(cell, "(") /\ endswith(cell, ")")

\* the exceptions of pyon_decode that the row loop catches
RowCaught == {"ValueError"}

RECURSIVE decode_cells(_, _)
decode_cells(cells, decoded_row) ==
    LET cell == Head(cells)
        Decoded(r) ==
            IF r.exc = "none" THEN decode_cells(Tail(cells), Append(decoded_row, r.val))
            ELSE IF r.exc \in RowCaught
              THEN decode_cells(Tail(cells), Append(decoded_row, cell))
            ELSE Err(r.exc)
    IN  IF cells = <<>> THEN Ret(ListV(decoded_row))
        ELSE IF LooksLikePyon(cell) THEN Decoded(pyon_decode(cell))
        ELSE decode_cells(Tail(cells), Append(decoded_row, cell))

\* a loop that stores each decoded cell in the row and returns the row
pyon_decode_row_in_place(row) ==
    LET Stored(r) == IF r.exc # "none" THEN Raise(r.exc, row) ELSE Ok(r.val, TRUE, r.val)
    IN  Stored(decode_cells(row.items, <<>>))

pyon_decode_row(row) ==
    LET Returned(r) == IF r.exc # "none" THEN Raise(r.exc, row) ELSE Ok(r.val, FALSE, row)
    IN  Returned(decode_cells(row.items, <<>>))


(***************************************************************************)
(* sorted(obj.items()): the comparison a < b and list.sort                 *)
(***************************************************************************)
\* ord(c) of the characters of the model's texts
Ord(c) ==
    CASE c = Tab -> 9     [] c = Newline -> 10  [] c = Space -> 32
      [] c = DQuote -> 34 [] c = Quote -> 39    [] c = "(" -> 40   [] c = ")" -> 41
      [] c = "+" -> 43    [] c = "," -> 44      [] c = "-" -> 45
      [] IsDigit(c) -> 48 + DigitValue(c)
      [] c = ":" -> 58    [] c = "F" -> 70      [] c = "N" -> 78   [] c = "T" -> 84
      [] c = "[" -> 91    [] c = Bslash -> 92   [] c = "]" -> 93
      [] c = "a" -> 97    [] c = "c" -> 99      [] c = "e" -> 101  [] c = "f" -> 102
      [] c = "l" -> 108   [] c = "n" -> 110     [] c = "o" -> 111  [] c = "r" -> 114
      [] c = "s" -> 115   [] c = "t" -> 116     [] c = "u" -> 117  [] c = "x" -> 120
      [] c = "{" -> 123   [] c = "}" -> 125

\* a < b on texts: by the first character that differs, else by length
StrLt(a, b) ==
    LET n == IF Len(a) < Len(b) THEN Len(a) ELSE Len(b)
        diff == {i \in 1..n : a[i] # b[i]}
    IN  IF diff = {} THEN Len(a) < Len(b)
        ELSE Ord(a[Min(diff)]) < Ord(b[Min(diff)])

\* a < b: "lt" when true, "ge" when false, "TypeError" when < is not
\* supported between the two; sequences compare their first unequal items
RECURSIVE PyLt(_, _)
PyLt(a, b) ==
    IF IsNumber(a) /\ IsNumber(b) THEN (IF a.n < b.n THEN "lt" ELSE "ge")
    ELSE IF a.kind = "str" /\ b.kind = "str" THEN (IF StrLt(a.s, b.s) THEN "lt" ELSE "ge")
    ELSE IF a.kind = b.kind /\ a.kind \in {"tuple", "list", "pair"}
      THEN LET n == IF Len(a.items) < Len(b.items) THEN Len(a.items) ELSE Len(b.items)
               diff == {i \in 1..n : ~PyEq(a.items[i], b.items[i])}
           IN  IF diff = {}
                 THEN (IF Len(a.items) < Len(b.items) THEN "lt" ELSE "ge")
                 ELSE LET i == CHOOSE i \in diff : \A j \in diff : i <= j
                      IN  PyLt(a.items[i], b.items[i])
    ELSE "TypeError"

SortFail == [exc |-> "TypeError", xs |-> <<>>]
Sorted(xs) == [exc |-> "none", xs |-> xs]

Reverse(xs) == [i \in 1..Len(xs) |-> xs[Len(xs) + 1 - i]]

\* count_run: the length of the run that starts the list, and whether it
\* descends; n is the length so far
RECURSIVE count_run(_, _, _)
count_run(xs, n, descending) ==
    LET Run(exc) == [exc |-> exc, n |-> n, descending |-> descending]
        Compared(c) ==
            IF c = "TypeError" THEN Run(c)
            ELSE IF (c = "lt") = descending THEN count_run(xs, n + 1, descending)
            ELSE Run("none")
    IN  IF n = Len(xs) THEN Run("none") ELSE Compared(PyLt(xs[n + 1], xs[n]))

\* the place of pivot in the sorted xs[l+1 .. r], by bisection
RECURSIVE bisect(_, _, _, _)
bisect(xs, pivot, l, r) ==
    LET p == l + ((r - l) \div 2)
        Compared(c) ==
            IF c = "TypeError" THEN [exc |-> c, at |-> l]
            ELSE IF c = "lt" THEN bisect(xs, pivot, l, p)
            ELSE bisect(xs, pivot, p + 1, r)
    IN  IF l >= r THEN [exc |-> "none", at |-> l] ELSE Compared(PyLt(pivot, xs[p + 1]))

\* binarysort: xs[1..start] is sorted; insert the others one at a time
RECURSIVE binarysort(_, _)
binarysort(xs, start) ==
    LET pivot == xs[start + 1]
        Insert(b) ==
            IF b.exc # "none" THEN SortFail
            ELSE binarysort(SubSeq(xs, 1, b.at) \o <<pivot>>
                                \o SubSeq(xs, b.at + 1, start)
                                \o SubSeq(xs, start + 2, Len(xs)),
                            start + 1)
    IN  IF start >= Len(xs) THEN Sorted(xs) ELSE Insert(bisect(xs, pivot, 0, start))

\* list.sort on a short list: one natural run, then binary insertion
py_sorted(xs) ==
    LET Runs(run) ==
            IF run.exc # "none" THEN SortFail
            ELSE binarysort(IF run.descending
                              THEN Reverse(SubSeq(xs, 1, run.n))
                                     \o SubSeq(xs, run.n + 1, Len(xs))
                              ELSE xs,
                            run.n)
        First(first) ==
            IF first = "TypeError" THEN SortFail ELSE Runs(count_run(xs, 2, first = "lt"))
    IN  IF Len(xs) < 2 THEN Sorted(xs) ELSE First(PyLt(xs[2], xs[1]))

(***************************************************************************)
(* sort_dict_keys and normalize_pyon                                       *)
(***************************************************************************)
RECURSIVE sort_dict_keys(_), sort_values(_, _), sort_each(_, _)

\* {k: sort_dict_keys(v) for k, v in <sorted items>}
sort_values(ps, acc) ==
    IF ps = <<>> THEN Ret(DictV(acc))
    ELSE LET r == sort_dict_keys(Head(ps).items[2])
         IN  IF r.exc # "none" THEN Err(r.exc)
             ELSE sort_values(Tail(ps), dict_setitem(acc, Head(ps).items[1], r.val))

\* a pass over a list or tuple that leaves the items as they are
sort_each_shallow(xs, acc) == Ret(ListV(xs))

\* sort_dict_keys(item) for item in obj
sort_each(xs, acc) ==
    IF xs = <<>> THEN Ret(ListV(acc))
    ELSE LET r == sort_dict_keys(Head(xs))
         IN  IF r.exc # "none" THEN Err(r.exc)
             ELSE sort_each(Tail(xs), Append(acc, r.val))

sort_dict_keys(obj) ==
    LET Built(r) == IF r.exc # "none" THEN Raise(r.exc, obj) ELSE Ok(r.val, FALSE, obj)
        BuiltTuple(r) ==
            IF r.exc # "none" THEN Raise(r.exc, obj)
            ELSE Ok(TupleV(r.val.items), FALSE, obj)
        SortedItems(srt) ==
            IF srt.exc # "none" THEN Raise(srt.exc, obj)
            ELSE Built(sort_values(srt.xs, <<>>))
    IN  IF obj.kind = "dict" THEN SortedItems(py_sorted(obj.items))
        ELSE IF obj.kind = "list" THEN Built(sort_each(obj.items, <<>>))
        ELSE IF obj.kind = "tuple" THEN BuiltTuple(sort_each(obj.items, <<>>))
        ELSE Ok(obj, TRUE, obj)

\* the exceptions the except clause of normalize_pyon catches
NormalizeCaught == {"ValueError", "SyntaxError"}

normalize_pyon(pyon_str) ==
    LET Encoded(n) ==
            IF n.exc \in NormalizeCaught THEN Ok(pyon_str, TRUE, pyon_str)
            ELSE IF n.exc # "none" THEN Raise(n.exc, pyon_str)
            ELSE Ok(pyon_encode(n.val).val, FALSE, pyon_str)
        Decoded(d) ==
            IF d.exc \in NormalizeCaught THEN Ok(pyon_str, TRUE, pyon_str)
            ELSE IF d.exc # "none" THEN Raise(d.exc, pyon_str)
            ELSE Encoded(sort_dict_keys(d.val))
    IN  Decoded(pyon_decode(pyon_str))


(***************************************************************************)
(* The values and texts the caller passes.                                 *)
(***************************************************************************)
SeqsUpTo(S, n) == UNION {[1..k -> S] : k \in 0..n}
SeqsFrom1(S, n) == UNION {[1..k -> S] : k \in 1..n}

RECURSIVE MkSet(_, _)
MkSet(xs, table) ==
    IF xs = <<>> THEN SetOfTable(table) ELSE MkSet(Tail(xs), set_add(table, Head(xs)))

RECURSIVE MkDict(_, _)
MkDict(ps, acc) ==
    IF ps = <<>> THEN DictV(acc)
    ELSE MkDict(Tail(ps), dict_setitem(acc, Head(ps).items[1], Head(ps).items[2]))

Ints == {IntV(-3), IntV(0), IntV(1), IntV(5), IntV(10)}
Strs == {StrV(<<>>), StrV(<<"a">>), StrV(<<"1">>), StrV(<<"a", Space, "c">>),
         StrV(<<Quote>>), StrV(<<Quote, Space, DQuote>>), StrV(<<Bslash>>),
         StrV(<<Tab>>)}
Scalars == Ints \cup Strs \cup {BoolV(TRUE), BoolV(FALSE), NoneV}

\* the elements of the generated lists and tuples
Elems == {IntV(1), IntV(-3), BoolV(TRUE), NoneV, StrV(<<"a">>), StrV(<<Quote>>)}

\* the members of the generated sets: numbers, whose hashes are their values
Members == {IntV(-3), IntV(0), IntV(1), IntV(5), BoolV(TRUE)}

\* the items of the generated dicts: number, text, none and tuple keys
Pairs == {PairV(IntV(1), StrV(<<"a">>)), PairV(IntV(5), IntV(0)),
          PairV(BoolV(TRUE), IntV(0)), PairV(StrV(<<"a">>), IntV(0)),
          PairV(StrV(<<"1">>), IntV(5)), PairV(NoneV, IntV(0)),
          PairV(TupleV(<<IntV(1), IntV(5)>>), IntV(0)),
          PairV(TupleV(<<IntV(1), StrV(<<"a">>)>>), IntV(1)),
          PairV(TupleV(<<>>), IntV(0))}

Flat ==
    {ListV(xs) : xs \in SeqsUpTo(Elems, MaxItems)}
      \cup {TupleV(xs) : xs \in SeqsUpTo(Elems, MaxItems)}
      \cup {MkSet(xs, EmptyTable) : xs \in SeqsUpTo(Members, MaxItems)}
      \cup {MkDict(ps, <<>>) : ps \in SeqsUpTo(Pairs, MaxItems)}

\* the containers that are nested in other containers: empty ones, sets whose
\* members collide in the table, mappings with keys in and out of order and
\* with keys that do not compare
Inner ==
    LET p5 == PairV(IntV(5), IntV(0))
        p1 == PairV(IntV(1), StrV(<<"a">>))
        pa == PairV(StrV(<<"a">>), IntV(0))
    IN  {ListV(<<>>), ListV(<<IntV(1)>>), ListV(<<IntV(1), IntV(1)>>),
         TupleV(<<>>), TupleV(<<IntV(1)>>), TupleV(<<IntV(1), IntV(1)>>)}
          \cup {MkSet(xs, EmptyTable) :
                  xs \in {<<>>, <<IntV(5)>>, <<IntV(5), IntV(-3)>>, <<IntV(-3), IntV(5)>>}}
          \cup {MkDict(ps, <<>>) :
                  ps \in {<<>>, <<p5>>, <<pa>>, <<p5, p1>>, <<p1, p5>>, <<p1, pa>>,
                          <<pa, p1>>, <<pa, p5>>}}

Nested ==
    {ListV(xs) : xs \in SeqsFrom1(Inner, MaxNest)}
      \cup {TupleV(xs) : xs \in SeqsFrom1(Inner, MaxNest)}
      \cup {MkDict(ps, <<>>) :
              ps \in SeqsFrom1({PairV(k, v) : k \in {IntV(1), StrV(<<"a">>)}, v \in Inner},
                               MaxNest)}

\* two and three levels of mappings in mappings, lists and tuples
Deep ==
    LET d == MkDict(<<PairV(IntV(5), IntV(0)), PairV(IntV(1), IntV(0))>>, <<>>)
        m == MkDict(<<PairV(IntV(1), IntV(0)), PairV(StrV(<<"a">>), IntV(0))>>, <<>>)
        f == MkSet(<<IntV(5), IntV(-3)>>, EmptyTable)
    IN  {ListV(<<TupleV(<<x>>)>>) : x \in {d, m, f}}
          \cup {MkDict(<<PairV(StrV(<<"c">>), ListV(<<x>>)), PairV(StrV(<<"a">>), d)>>, <<>>) :
                  x \in {d, m, f}}
          \cup {TupleV(<<IntV(1), MkDict(<<PairV(IntV(5), x), PairV(IntV(1), x)>>, <<>>)>>) :
                  x \in {d, m, f}}

Values == Scalars \cup Flat \cup Nested \cup Deep

\* texts that are literals, with the spacing, signs, parentheses and commas the grammar allows
LiteralTexts ==
    {<<"T", "r", "u", "e">>,
     <<"N", "o", "n", "e">>,
     <<"s", "e", "t", "(", ")">>,
     <<"-", "1">>,
     <<"-", Space, "1">>,
     <<"+", "5">>,
     <<"(", "1", ")">>,
     <<"(", "(", "1", ")", ")">>,
     <<"(", "1", ",", ")">>,
     <<"(", ")">>,
     <<"1", ",">>,
     <<"1", ",", Space, "5">>,
     <<"{", "1", ":", Space, "0", ",", "}">>,
     <<"[", "1", ",", Space, "5", ",", "]">>,
     <<Quote, "a", Quote, Space, Quote, "c", Quote>>,
     <<Quote, Quote>>,
     <<Quote, Quote, Quote, "a", Quote, Quote, Quote>>,
     <<DQuote, "a", DQuote>>,
     <<Space, "1">>,
     <<"1", Space>>,
     <<Space, "[", "1", "]">>,
     <<"[", "1", "]", Space>>,
     <<"[", Space, "1", Space, ",", "5", Space, "]">>,
     <<"{", Space, "1", ":", "0", Space, "}">>,
     <<"0", "0">>,
     <<"{", "5", ",", Space, "-", "3", "}">>,
     <<"{", "-", "3", ",", Space, "5", "}">>,
     <<"{", "1", ",", Space, "T", "r", "u", "e", "}">>,
     <<"{", "T", "r", "u", "e", ":", Space, "0", ",", Space, "1", ":", Space, "5", "}">>,
     <<"{", "1", ":", Space, "0", ",", Space, "1", ":", Space, "5", "}">>,
     <<"{", "1", ":", Space, "0", ",", Space, Quote, "a", Quote, ":", Space, "0", "}">>,
     <<"{", "5", ":", Space, "0", ",", Space, "1", ":", Space, "0", "}">>,
     <<"[", "{", "5", ":", Space, "0", ",", Space, "1", ":", Space, "0", "}", "]">>,
     <<"[", "{", "1", ":", Space, "0", ",", Space, Quote, "a", Quote, ":", Space, "0", "}", "]">>,
     <<"(", "{", Quote, "a", Quote, ":", Space, "{", "5", ":", Space, "0", ",", Space, "1", ":", Space, "0", "}", "}", ",", ")">>,
     <<"{", "(", "1", ",", Space, Quote, "a", Quote, ")", ":", Space, "0", ",", Space, "(", "1", ",", Space, "5", ")", ":", Space, "0", "}">>,
     <<"{", "(", "5", ",", Space, Quote, "a", Quote, ")", ":", Space, "0", ",", Space, "(", "1", ",", Space, "5", ")", ":", Space, "0", "}">>,
     <<"{", "N", "o", "n", "e", ":", Space, "0", ",", Space, "1", ":", Space, "0", "}">>,
     <<Quote, "a", Bslash, Quote, "c", Quote>>,
     <<Quote, "a", Space, Bslash, Quote, "c", Quote>>,
     <<"[", "1", ",", Space, Quote, "a", Bslash, Quote, "c", Quote, "]">>,
     <<DQuote, "a", Quote, Space, "c", DQuote>>,
     <<"[", Quote, "a", Space, "c", Quote, ",", Space, "1", "]">>,
     <<Newline, "1">>,
     <<"1", Newline>>,
     <<"[", "1", ",", Newline, "5", "]">>,
     <<Quote, "a", Bslash, "t", "c", Quote>>}

\* texts that are no literal: names, calls, subscripts, arithmetic, bad syntax
NonLiteralTexts ==
    {<<"x">>,
     <<"x", "a">>,
     <<"s", "e", "t">>,
     <<"f", "(", "1", ")">>,
     <<"f", "(", ")">>,
     <<"s", "e", "t", "(", "1", ")">>,
     <<"s", "e", "t", "(", ")", "(", ")">>,
     <<"x", "[", "1", "]">>,
     <<"[", "1", "]", "[", "0", "]">>,
     <<"1", "+", "5">>,
     <<"1", Space, "+", Space, "5">>,
     <<"1", "-", "5">>,
     <<"-", "-", "1">>,
     <<"-", "T", "r", "u", "e">>,
     <<"-", "x">>,
     <<"-", Quote, "a", Quote>>,
     <<"(", "x", ")">>,
     <<"[", "x", "]">>,
     <<"{", "1", ":", Space, "x", "}">>,
     <<"[", "f", "(", "1", ")", "]">>,
     <<"[", "1", "+", "5", "]">>,
     <<"(", "1", Space, "+", Space, "5", ")">>,
     <<"{", "x", "}">>,
     <<"{", "1", ":", Space, "s", "e", "t", "(", "x", ")", "}">>,
     <<"t", "r", "u", "e">>,
     <<"[", "1", ",", Space, "x", "]">>,
     <<"(", "1", Space, "+", ")">>,
     <<"[", "1", ",", Space, "5">>,
     <<"[", "1", ",", Space, "5", "]", "]">>,
     <<"[", "1", ",", ",", "]">>,
     <<"[", ",", "]">>,
     <<"[", "1", Space, "5", "]">>,
     <<"{", "1", ":", Space, "}">>,
     <<"{", "1", ",", Space, "5", ":", Space, "0", "}">>,
     <<"{", ":", Space, "0", "}">>,
     <<Quote, "a">>,
     <<"a", Quote>>,
     <<"0", "1">>,
     <<"1", "x">>,
     <<Space>>,
     <<Space, Space>>,
     <<Tab>>,
     <<"1", Newline, "5">>,
     <<"1", Space, "5">>,
     <<"(", "1">>,
     <<"1", ")">>,
     <<"{", "1", ":", Space, "0">>,
     <<"[", "1", "}">>,
     <<Quote, "a", Quote, Space, "x">>}

\* displays with an unhashable key or member
UnhashableTexts ==
    {<<"{", "[", "1", "]", ":", Space, "0", "}">>,
     <<"{", "[", "1", "]", ":", Space, "x", "}">>,
     <<"{", "[", "1", "]", ":", Space, "0", ",", Space, "x", ":", Space, "1", "}">>,
     <<"{", "x", ":", Space, "0", ",", Space, "[", "1", "]", ":", Space, "0", "}">>,
     <<"{", "[", "1", "]", ",", Space, "x", "}">>,
     <<"{", "x", ",", Space, "[", "1", "]", "}">>,
     <<"{", "[", "1", "]", "}">>,
     <<"{", "{", "}", "}">>,
     <<"{", "{", "1", ":", Space, "0", "}", ":", Space, "0", "}">>,
     <<"{", "(", "1", ",", Space, "[", "5", "]", ")", ":", Space, "0", "}">>,
     <<"{", "(", "[", "1", "]", ",", ")", "}">>,
     <<"{", "{", "5", "}", "}">>,
     <<"[", "{", "[", "1", "]", ":", Space, "0", "}", "]">>,
     <<"{", "1", ":", Space, "{", "[", "1", "]", "}", "}">>,
     <<"{", "[", "1", "]", ":", Space, "0", ",", Space, "1", ":", Space, ")", "}">>,
     <<"{", "[", "1", "]", ":", Space, "f", "(", "1", ")", "}">>,
     <<"{", "1", ":", Space, "0", ",", Space, "[", "]", ":", Space, "0", "}">>}

\* encodings that are perturbed by one character
SeedTexts ==
    {<<"{", "1", ":", Space, Quote, "a", Quote, ",", Space, "(", "1", ",", Space, "5", ")", ":", Space, "[", "T", "r", "u", "e", "]", "}">>,
     <<"{", "5", ",", Space, "-", "3", "}">>,
     <<"(", Quote, "a", Quote, ",", ")">>,
     <<"[", "N", "o", "n", "e", ",", Space, Quote, Bslash, Bslash, Quote, "]">>}


InsertChars == {Space, "x", Quote, ",", "("}

\* t with one character deleted, or with one character inserted
OneCharEdits(t) ==
    {SubSeq(t, 1, i - 1) \o SubSeq(t, i + 1, Len(t)) : i \in 1..Len(t)}
      \cup {SubSeq(t, 1, i) \o <<c>> \o SubSeq(t, i + 1, Len(t)) :
              i \in 0..Len(t), c \in InsertChars}

Texts ==
    {StrV(t) : t \in {<<>>} \cup LiteralTexts \cup NonLiteralTexts \cup UnhashableTexts
                       \cup UNION {OneCharEdits(t) : t \in SeedTexts}}

\* the cells of the rows: texts that look like PYON and decode, that look
\* like PYON and do not decode, that are padded with white space, plain
\* texts, and cells that are no text
Cells ==
    {StrV(<<"{", Quote, "a", Quote, ":", Space, "1", "}">>),
     StrV(<<"[", "5", ",", Space, "1", "]">>),
     StrV(<<"(", "1", ",", ")">>),
     StrV(<<"{", "5", ",", Space, "-", "3", "}">>),
     StrV(<<"[", "1", ",", Space, "x", "]">>),
     StrV(<<"(", "1", Space, "+", ")">>),
     StrV(<<"[", "1", ",", Space, "5">>),
     StrV(<<"{", "[", "1", "]", ":", Space, "0", "}">>),
     StrV(<<"{", "[", "1", "]", ",", Space, "0", "}">>),
     StrV(<<Space, "[", "1", "]">>),
     StrV(<<"[", "1", "]", Space>>),
     StrV(<<Tab, "{", "1", ":", Space, "0", "}", Newline>>),
     StrV(<<"a", Space, "c">>),
     StrV(<<"1">>),
     StrV(<<>>),
     IntV(5), NoneV, ListV(<<IntV(1)>>)}

Rows == {ListV(cells) : cells \in SeqsUpTo(Cells, MaxRow)}

(***************************************************************************)
(* The caller.                                                             *)
(***************************************************************************)
Call(o, a, r) == [op |-> o, arg |-> a, ret |-> r]
NoCall == Call("none", NoneV, Ok(NoneV, FALSE, NoneV))
ThisCall == Call(op, arg, ret)

\* the preceding call returned a text, which the caller may pass on
ReturnedText == op # "none" /\ ret.exc = "none" /\ ret.val.kind = "str"

Init ==
    /\ op = "none"
    /\ arg = NoneV
    /\ ret = Ok(NoneV, FALSE, NoneV)
    /\ prev = NoCall

Do(o, a, r, chained) ==
    /\ op' = o
    /\ arg' = a
    /\ ret' = r
    /\ prev' = IF chained THEN ThisCall ELSE NoCall

\* the caller is between calls: the last result was dropped
Idle == op = "none"

Encode       == Idle /\ \E v \in Values : Do("pyon_encode", v, pyon_encode(v), FALSE)
Decode       == Idle /\ \E t \in Texts : Do("pyon_decode", t, pyon_decode(t), FALSE)
DecodeResult == ReturnedText /\ Do("pyon_decode", ret.val, pyon_decode(ret.val), TRUE)
RemoveSpaces == Idle /\ \E t \in Texts : Do("remove_spaces", t, remove_spaces(t), FALSE)
RemoveSpacesResult ==
    ReturnedText /\ Do("remove_spaces", ret.val, remove_spaces(ret.val), TRUE)
ToJson       == Idle /\ \E v \in Values : Do("pyon_to_json", v, pyon_to_json(v), FALSE)
DecodeRow    ==
    Idle /\ \E row \in Rows : Do("pyon_decode_row", row, pyon_decode_row(row), FALSE)
SortDictKeys ==
    Idle /\ \E v \in Values : Do("sort_dict_keys", v, sort_dict_keys(v), FALSE)
Normalize    == Idle /\ \E t \in Texts : Do("normalize_pyon", t, normalize_pyon(t), FALSE)
NormalizeResult ==
    ReturnedText /\ Do("normalize_pyon", ret.val, normalize_pyon(ret.val), TRUE)

\* the caller drops the result of the last call
Drop ==
    /\ ~Idle
    /\ op' = "none"
    /\ arg' = NoneV
    /\ ret' = Ok(NoneV, FALSE, NoneV)
    /\ prev' = NoCall

Next ==
    \/ Encode
    \/ Decode
    \/ DecodeResult
    \/ RemoveSpaces
    \/ RemoveSpacesResult
    \/ ToJson
    \/ DecodeRow
    \/ SortDictKeys
    \/ Normalize
    \/ NormalizeResult
    \/ Drop

Spec == Init /\ [][Next]_vars


(***************************************************************************)
(* Vocabulary of the properties.                                           *)
(***************************************************************************)
\* v and w are equal values of the same kinds: sets and dicts compare
\* without regard to order, every other container item by item
RECURSIVE SameValue(_, _)
SameValue(v, w) ==
    /\ v.kind = w.kind
    /\ v.n = w.n
    /\ v.s = w.s
    /\ Len(v.items) = Len(w.items)
    /\ IF v.kind \in {"set", "dict"}
         THEN \A i \in 1..Len(v.items) :
                \E j \in 1..Len(w.items) : SameValue(v.items[i], w.items[j])
         ELSE \A i \in 1..Len(v.items) : SameValue(v.items[i], w.items[i])

\* v holds a set: at the top, as a mapping value, or in a list or tuple
RECURSIVE HasSet(_)
HasSet(v) ==
    \/ v.kind = "set"
    \/ v.kind \in {"list", "tuple"} /\ \E i \in 1..Len(v.items) : HasSet(v.items[i])
    \/ v.kind = "dict" /\ \E i \in 1..Len(v.items) : HasSet(v.items[i].items[2])

\* some mapping in v has two keys that < does not compare
RECURSIVE HasIncomparableKeys(_)
HasIncomparableKeys(v) ==
    \/ v.kind \in {"list", "tuple"}
         /\ \E i \in 1..Len(v.items) : HasIncomparableKeys(v.items[i])
    \/ v.kind = "dict"
         /\ \/ \E i, j \in 1..Len(v.items) :
                 i # j /\ PyLt(v.items[i].items[1], v.items[j].items[1]) = "TypeError"
            \/ \E i \in 1..Len(v.items) : HasIncomparableKeys(v.items[i].items[2])

\* every mapping in v lists its keys in ascending order
RECURSIVE KeysAscending(_)
KeysAscending(v) ==
    /\ v.kind \in {"list", "tuple"} =>
         \A i \in 1..Len(v.items) : KeysAscending(v.items[i])
    /\ v.kind = "dict" =>
         /\ \A i \in 1..(Len(v.items) - 1) :
              PyLt(v.items[i].items[1], v.items[i + 1].items[1]) = "lt"
         /\ \A i \in 1..Len(v.items) : KeysAscending(v.items[i].items[2])

IsWhite(c) == c \in {Space, Tab, Newline}

\* text.strip()
Trim(t) ==
    LET black == {i \in 1..Len(t) : ~IsWhite(t[i])}
    IN  IF black = {} THEN <<>> ELSE SubSeq(t, Min(black), Max(black))

\* t starts and ends with a matching pair of brackets
IsBracketed(t) ==
    Len(t) >= 1 /\ <<t[1], t[Len(t)]>> \in {<<"{", "}">>, <<"[", "]">>, <<"(", ")">>}

IsPadded(cell) == cell.kind = "str" /\ Trim(cell.s) # cell.s

\* the single-quoted regions of t from index i on, a quote that follows an
\* odd number of backslashes inside a region not ending it
RECURSIVE QuotedRegions(_, _)
QuotedRegions(t, i) ==
    LET opens == {j \in i..Len(t) : t[j] = Quote}
    IN  IF opens = {} THEN <<>>
        ELSE LET o == Min(opens)
                 closes == {j \in (o + 1)..Len(t) : t[j] = Quote /\ ~IsEscaped(t, j, o + 1)}
             IN  IF closes = {} THEN <<[o |-> o, c |-> Len(t)]>>
                 ELSE <<[o |-> o, c |-> Min(closes)]>> \o QuotedRegions(t, Min(closes) + 1)

\* t without the white space that lies outside its single-quoted regions
WithoutOuterSpace(t) ==
    LET regions == QuotedRegions(t, 1)
        Inside(i) == \E k \in 1..Len(regions) : regions[k].o <= i /\ i <= regions[k].c
        kept == {i \in 1..Len(t) : ~IsWhite(t[i]) \/ Inside(i)}
    IN  [k \in 1..Cardinality(kept) |->
           t[CHOOSE i \in kept : Cardinality({j \in kept : j < i}) = k - 1]]

\* the JSON shape of a value without sets: keys become their string form, the
\* last item of each string form gives the value, at the place of the first
RECURSIVE JsonShape(_)
JsonShape(v) ==
    IF v.kind \in {"list", "tuple"}
      THEN ListV([i \in 1..Len(v.items) |-> JsonShape(v.items[i])])
    ELSE IF v.kind = "dict"
      THEN LET key(i) == py_str(v.items[i].items[1])
               firsts == {i \in 1..Len(v.items) : \A j \in 1..(i - 1) : key(j) # key(i)}
               last(i) == Max({j \in 1..Len(v.items) : key(j) = key(i)})
           IN  DictV([k \in 1..Cardinality(firsts) |->
                        LET f == CHOOSE x \in firsts :
                                   Cardinality({j \in firsts : j < x}) = k - 1
                        IN  PairV(StrV(key(f)), JsonShape(v.items[last(f)].items[2]))])
    ELSE v

\* t has a name outside its string literals that is none of the constants
\* True, False and None and is not the set of the empty-set text: a bare
\* identifier, or the function of a call
HasBareName(t) ==
    LET tk == Tokenize(LStrip(t))
    IN  /\ tk.ok
        /\ \E k \in 1..Len(tk.toks) :
             /\ tk.toks[k].tt = "NAME"
             /\ tk.toks[k].s \notin {<<"T", "r", "u", "e">>, <<"F", "a", "l", "s", "e">>,
                                     <<"N", "o", "n", "e">>, <<"s", "e", "t">>}

\* t has a + or - between two operands: an arithmetic expression
HasArithmetic(t) ==
    LET tk == Tokenize(LStrip(t))
    IN  /\ tk.ok
        /\ \E k \in 2..Len(tk.toks) :
             /\ tk.toks[k].tt = "OP" /\ tk.toks[k].s \in {<<"+">>, <<"-">>}
             /\ \/ tk.toks[k - 1].tt \in {"NUM", "NAME", "STR"}
                \/ tk.toks[k - 1].tt = "OP" /\ tk.toks[k - 1].s \in {<<")">>, <<"]">>, <<"}">>}

(***************************************************************************)
(* Properties.  Python's ValueError is the DecodeError of the              *)
(* specification, its TypeError the ComparisonError and SerializationError.*)
(***************************************************************************)

\* C1: decoding the encoding of a value gives a value equal to it, of the
\* same container kinds throughout: a list stays a list, a tuple a tuple,
\* a set a set, a mapping a mapping.
C1_RoundTrip ==
    (op = "pyon_decode" /\ prev.op = "pyon_encode" /\ arg = prev.ret.val) =>
        (ret.exc = "none" /\ SameValue(ret.val, prev.arg))

\* a one-element tuple inside a list went through encode and decode
C1_Witness ==
    /\ op = "pyon_decode" /\ prev.op = "pyon_encode" /\ arg = prev.ret.val
    /\ prev.arg.kind = "list"
    /\ \E i \in 1..Len(prev.arg.items) :
         prev.arg.items[i].kind = "tuple" /\ Len(prev.arg.items[i].items) = 1
    /\ ret.exc = "none"
    /\ ret.val = prev.arg

\* C2: decode fails with ValueError on every text that has a bare
\* identifier, a call or an arithmetic expression in it.
C2_NonLiteralRaisesValueError ==
    (op = "pyon_decode" /\ (HasBareName(arg.s) \/ HasArithmetic(arg.s))) =>
        ret.exc = "ValueError"

\* C3: decode_row raises nothing: a cell that looks like a literal and
\* does not decode, an unhashable key or member included, is passed through
\* unchanged, and the other cells are decoded or passed through.
C3_RowNeverRaises ==
    op = "pyon_decode_row" =>
        /\ ret.exc = "none"
        /\ Len(ret.val.items) = Len(arg.items)
        /\ \A i \in 1..Len(arg.items) :
             LET cell == arg.items[i]
             IN  IF cell.kind = "str" /\ IsBracketed(cell.s) /\ pyon_decode(cell).exc = "none"
                   THEN ret.val.items[i] = pyon_decode(cell).val
                   ELSE ret.val.items[i] = cell

\* C4: normalize returns the original text for every text that decode
\* fails on, a text with an unhashable key or member included.
C4_NormalizeReturnsUndecodable ==
    (op = "normalize_pyon" /\ pyon_decode(arg).exc # "none") =>
        (ret.exc = "none" /\ ret.val = arg)

\* C5: normalize raises TypeError when the decoded value has, at any
\* nesting level, a mapping with keys that do not compare; it returns
\* neither the original text nor a partial result.
C5_IncomparableKeysRaise ==
    (/\ op = "normalize_pyon"
     /\ pyon_decode(arg).exc = "none"
     /\ HasIncomparableKeys(pyon_decode(arg).val)) =>
        ret.exc = "TypeError"

\* a mapping with an int key and a str key, inside a list, was normalized
C5_Witness ==
    /\ op = "normalize_pyon"
    /\ arg = StrV(<<"[", "{", "1", ":", Space, "0", ",", Space, Quote, "a", Quote, ":", Space, "0", "}", "]">>)
    /\ pyon_decode(arg).exc = "none"
    /\ HasIncomparableKeys(pyon_decode(arg).val)
    /\ ret.exc = "TypeError"

\* C6: normalizing a normalized text returns it unchanged, and a
\* normalized text decodes to a value whose mappings all list their keys
\* in ascending order.
C6_NormalizeIdempotent ==
    /\ (op = "normalize_pyon" /\ prev.op = "normalize_pyon" /\ arg = prev.ret.val) =>
          (ret.exc = "none" /\ ret.val = arg)
    /\ (op = "normalize_pyon" /\ pyon_decode(arg).exc = "none" /\ ret.exc = "none") =>
          (pyon_decode(ret.val).exc = "none" /\ KeysAscending(pyon_decode(ret.val).val))

\* C7: remove_spaces returns the text without the spaces, tabs and
\* newlines that lie outside single-quoted regions, an escaped quote
\* inside a region not ending it, and with every other character kept.
C7_RemovesOuterWhitespace ==
    op = "remove_spaces" =>
        (ret.exc = "none" /\ ret.val.s = WithoutOuterSpace(arg.s))

\* C8: to_json raises TypeError for a value that holds a set at any
\* depth; for any other value it returns the JSON text in which every
\* mapping key is its string form, the last of the keys with one string
\* form gives the value, and lists and tuples are arrays.
C8_ToJson ==
    op = "pyon_to_json" =>
        IF HasSet(arg) THEN ret.exc = "TypeError"
        ELSE ret.exc = "none" /\ ret.val = StrV(json_dumps(JsonShape(arg)))

\* a mapping with the keys 1 and '1' became an object with the one key "1"
\* and the value of the later item
C8_Witness ==
    /\ op = "pyon_to_json"
    /\ arg = MkDict(<<PairV(IntV(1), StrV(<<"a">>)), PairV(StrV(<<"1">>), IntV(5))>>, <<>>)
    /\ ret.exc = "none"
    /\ ret.val = StrV(<<"{", DQuote, "1", DQuote, ":", "5", "}">>)

\* C9 as stated: a text cell with white space around a valid bracketed
\* literal is replaced by the decoded value.
C9_PaddedCellDecoded ==
    (op = "pyon_decode_row" /\ ret.exc = "none") =>
        \A i \in 1..Len(arg.items) :
            LET cell == arg.items[i]
                inner == StrV(Trim(cell.s))
            IN  (/\ IsPadded(cell)
                 /\ IsBracketed(inner.s)
                 /\ pyon_decode(inner).exc = "none") =>
                    ret.val.items[i] = pyon_decode(inner).val

\* C9 amended: decode_row decides on the text of the cell as given: a text
\* cell with white space at its start or end is never decoded, it makes no
\* call raise and it is at its place, unchanged, in every row returned.
C9_PaddedCellPassedThrough ==
    op = "pyon_decode_row" =>
        /\ (\A i \in 1..Len(arg.items) :
              IsPadded(arg.items[i])) =>
                (ret.exc = "none" /\ ret.val.items = arg.items)
        /\ ret.exc = "none" =>
             \A i \in 1..Len(arg.items) :
                 IsPadded(arg.items[i]) => ret.val.items[i] = arg.items[i]

\* a row with a padded cell whose trimmed text is a valid literal came back
\* with the cell unchanged
C9_Witness ==
    /\ op = "pyon_decode_row"
    /\ ret.exc = "none"
    /\ \E i \in 1..Len(arg.items) :
         /\ IsPadded(arg.items[i])
         /\ IsBracketed(Trim(arg.items[i].s))
         /\ pyon_decode(StrV(Trim(arg.items[i].s))).exc = "none"
         /\ ret.val.items[i] = arg.items[i]

=============================================================================
